---- MODULE Spec2Model ----
(***************************************************************************)
(* A model of the two HTML-to-Markdown parsers of zhihu-download:          *)
(*   DocsParser  (src/main_docs.py)  - documentation sites, single page    *)
(*                                     and section crawl;                  *)
(*   LMSYSParser (src/main_lmsys.py) - LMSYS blog articles.                *)
(*                                                                         *)
(* Strings are sequences of tokens.  A token is a short piece of text; the *)
(* tokenisation is fine enough that every test the code makes on a string  *)
(* (startswith, a regular-expression class, a substring search, a split)   *)
(* falls on token borders.  Titles are tokenised one character per token,  *)
(* so that Len is the length the code truncates.  A parsed document is a   *)
(* tree of nodes; a reference the code holds into the tree (the content    *)
(* region) is a path of child indices, so that in-place mutation through   *)
(* the reference changes the tree the other references see.                *)
(***************************************************************************)
EXTENDS Integers, Sequences, FiniteSets, TLC

\* ---------------------------------------------------------------- strings

\* Python's None for a string-valued result.
None == <<"<None>">>

\* No node: the result of a failed find / select_one (child indices start at 1).
NoPath == <<0>>

RECURSIVE Concat(_)
\* "".join(ss) for a sequence of strings (or of sequences).
Concat(ss) == IF ss = <<>> THEN <<>> ELSE Head(ss) \o Concat(Tail(ss))

\* Python truthiness of an optional string: neither None nor "".
Truthy(s) == s /= None /\ s /= <<>>

\* a or b
Or(a, b) == LET x == a IN IF Truthy(x) THEN x ELSE b

IsSpace(t) == t \in {" ", "\n", "\t"}

RECURSIVE LStrip(_)
LStrip(s) == IF s /= <<>> /\ IsSpace(Head(s)) THEN LStrip(Tail(s)) ELSE s

RECURSIVE RStrip(_)
RStrip(s) ==
  IF s /= <<>> /\ IsSpace(s[Len(s)]) THEN RStrip(SubSeq(s, 1, Len(s) - 1)) ELSE s

\* str.strip()
Strip(s) == RStrip(LStrip(s))

\* s.startswith(p)
StartsWith(s, p) == Len(s) >= Len(p) /\ SubSeq(s, 1, Len(p)) = p

\* The indices at which pat occurs in s.
Occurrences(s, pat) == {i \in 1..(Len(s) - Len(pat) + 1) : SubSeq(s, i, i + Len(pat) - 1) = pat}

RECURSIVE Replace(_, _, _)
\* s.replace(pat, rep): every non-overlapping occurrence, left to right.
Replace(s, pat, rep) ==
  LET occ == Occurrences(s, pat)
  IN IF occ = {} THEN s
     ELSE LET i == CHOOSE x \in occ : \A y \in occ : x <= y
          IN SubSeq(s, 1, i - 1) \o rep \o Replace(SubSeq(s, i + Len(pat), Len(s)), pat, rep)

\* s.split(sep)[0] for a one-token separator.
BeforeFirst(s, sep) ==
  LET occ == {i \in 1..Len(s) : s[i] = sep}
  IN IF occ = {} THEN s ELSE SubSeq(s, 1, (CHOOSE x \in occ : \A y \in occ : x <= y) - 1)

\* s.split("\n"): the lines of a text, each a string.
SplitLines(s) ==
  LET brk == {0, Len(s) + 1} \cup {i \in 1..Len(s) : s[i] = "\n"}
      next(i) == CHOOSE j \in brk : j > i /\ \A k \in brk : k > i => j <= k
      start[n \in 1..Cardinality(brk)] == IF n = 1 THEN 0 ELSE next(start[n - 1])
  IN [n \in 1..(Cardinality(brk) - 1) |-> SubSeq(s, start[n] + 1, next(start[n]) - 1)]

\* s[:n]
Take(s, n) == SubSeq(s, 1, IF Len(s) < n THEN Len(s) ELSE n)

\* c * n
Rep(c, n) == [i \in 1..n |-> c]

\* ------------------------------------------------------------------- nodes

AttrNames == {"src", "data-src", "href", "alt", "role", "property", "name", "content"}

NoAttrs == [a \in AttrNames |-> None]

\* An element: tag name, class tokens (each a string), attributes, children.
El(tag, cls, attrs, kids) ==
  [tag |-> tag, cls |-> cls, attrs |-> attrs, kids |-> kids, text |-> <<>>]

\* A text node (bs4 NavigableString).
Txt(s) == [tag |-> "#text", cls |-> <<>>, attrs |-> NoAttrs, kids |-> <<>>, text |-> s]

\* The BeautifulSoup object: the root of a parsed document.
Doc(kids) == El("[document]", <<>>, NoAttrs, kids)

IsText(n) == n.tag = "#text"

RECURSIVE At(_, _)
\* The node a path leads to.
At(n, p) == IF p = <<>> THEN n ELSE At(n.kids[Head(p)], Tail(p))

RECURSIVE ReplaceAt(_, _, _)
\* The tree with the node at path p replaced by m (mutation through a reference).
ReplaceAt(n, p, m) ==
  IF p = <<>> THEN m
  ELSE [n EXCEPT !.kids = [n.kids EXCEPT ![Head(p)] = ReplaceAt(n.kids[Head(p)], Tail(p), m)]]

RECURSIVE RemoveAt(_, _)
\* The tree with the node at the non-empty path p excised (Tag.decompose).
RemoveAt(n, p) ==
  IF Len(p) = 1
  THEN [n EXCEPT !.kids = SubSeq(n.kids, 1, Head(p) - 1) \o SubSeq(n.kids, Head(p) + 1, Len(n.kids))]
  ELSE [n EXCEPT !.kids = [n.kids EXCEPT ![Head(p)] = RemoveAt(n.kids[Head(p)], Tail(p))]]

RECURSIVE DescPaths(_)
\* The paths of n's descendants (n excluded), in document order.
DescPaths(n) ==
  Concat([i \in 1..Len(n.kids) |->
            LET below == DescPaths(n.kids[i])
            IN <<<<i>>>> \o [j \in 1..Len(below) |-> <<i>> \o below[j]]])

\* n's descendants (n excluded), in document order.
Desc(n) == LET ps == DescPaths(n) IN [i \in 1..Len(ps) |-> At(n, ps[i])]

\* Tag.find_all(names): the element descendants whose tag name is among names.
find_all(n, names) ==
  LET d == Desc(n) IN Concat([i \in 1..Len(d) |-> IF d[i].tag \in names THEN <<d[i]>> ELSE <<>>])

\* Tag.find(name): the path of the first descendant with that tag name, or NoPath.
find(n, name) ==
  LET ps == DescPaths(n)
      hits == {i \in 1..Len(ps) : At(n, ps[i]).tag = name}
  IN IF hits = {} THEN NoPath ELSE ps[CHOOSE i \in hits : \A j \in hits : i <= j]

RECURSIVE get_text(_)
\* Tag.get_text(): the text nodes below n, concatenated.
get_text(n) == IF IsText(n) THEN n.text ELSE Concat([i \in 1..Len(n.kids) |-> get_text(n.kids[i])])

RECURSIVE get_text_strip(_)
\* Tag.get_text(strip=True): every text node stripped, the empty ones dropped,
\* joined with no separator.
get_text_strip(n) ==
  IF IsText(n) THEN Strip(n.text)
  ELSE Concat([i \in 1..Len(n.kids) |-> get_text_strip(n.kids[i])])

RECURSIVE RemoveTags(_, _)
\* for e in n.find_all(names): e.decompose()
RemoveTags(n, names) ==
  [n EXCEPT !.kids =
     Concat([i \in 1..Len(n.kids) |->
               IF n.kids[i].tag \in names THEN <<>> ELSE <<RemoveTags(n.kids[i], names)>>])]

\* --------------------------------------------------------------- selectors

\* A CSS selector of the forms the code uses: tag, .class, tag.class,
\* [role="r"], tag[role="r"], [class*="w"], and "<ancestor> a".
Sel(tag, cls, role, sub) == [tag |-> tag, cls |-> cls, role |-> role, sub |-> sub]

\* Whether some class token of n contains the word w.
ClassContains(n, w) == \E i \in 1..Len(n.cls) : \E j \in 1..Len(n.cls[i]) : n.cls[i][j] = w

HasClass(n, c) == \E i \in 1..Len(n.cls) : n.cls[i] = c

Matches(n, s) ==
  /\ ~IsText(n)
  /\ s.tag = "" \/ n.tag = s.tag
  /\ s.cls = <<>> \/ HasClass(n, s.cls)
  /\ s.role = <<>> \/ n.attrs["role"] = s.role
  /\ s.sub = "" \/ ClassContains(n, s.sub)

\* soup.select_one(selector): the path of the first match in document order.
select_one(n, s) ==
  LET ps == DescPaths(n)
      hits == {i \in 1..Len(ps) : Matches(At(n, ps[i]), s)}
  IN IF hits = {} THEN NoPath ELSE ps[CHOOSE i \in hits : \A j \in hits : i <= j]

RECURSIVE FirstMatch(_, _)
\* The selector loop: the first selector of the list that matches anything.
FirstMatch(n, sels) ==
  IF sels = <<>> THEN NoPath
  ELSE LET hit == select_one(n, Head(sels))
       IN IF hit /= NoPath THEN hit ELSE FirstMatch(n, Tail(sels))

\* -------------------------------------------------------------------- URLs

\* A URL is tokenised as scheme tokens, "://", host, then path tokens, e.g.
\* <<"http", "s", "://", "x.org", "/", "img", "/", "a.png">>.

\* The index of the "://" token of u, or 0.
SchemeSep(u) ==
  IF \E i \in 1..Len(u) : u[i] = "://" THEN CHOOSE i \in 1..Len(u) : u[i] = "://" /\ \A j \in 1..(i - 1) : u[j] /= "://"
  ELSE 0

\* Tokens that are a whole "scheme:" prefix of a reference without "//".
SchemeTokens == {"data:", "javascript:", "mailto:"}

\* urlparse(u).scheme
Scheme(u) == IF SchemeSep(u) = 0 THEN <<>> ELSE SubSeq(u, 1, SchemeSep(u) - 1)

\* urlparse(u).hostname
Hostname(u) == IF SchemeSep(u) = 0 \/ SchemeSep(u) = Len(u) THEN <<>> ELSE <<u[SchemeSep(u) + 1]>>

\* f"{urlparse(url).scheme}://{urlparse(url).hostname}"
Origin(u) == Scheme(u) \o <<"://">> \o Hostname(u)

\* Whether a reference carries its own scheme (an absolute URL for urljoin).
HasScheme(r) == r /= <<>> /\ (SchemeSep(r) > 1 \/ Head(r) \in SchemeTokens)

\* The path of u up to and including its last "/", "/" when it has none.
BaseDir(u) ==
  LET path == SubSeq(u, SchemeSep(u) + 2, Len(u))
      slashes == {i \in 1..Len(path) : path[i] = "/"}
  IN IF slashes = {} THEN <<"/">> ELSE SubSeq(path, 1, CHOOSE i \in slashes : \A j \in slashes : j <= i)

\* u without its fragment.
NoFragment(u) ==
  IF \E i \in 1..Len(u) : u[i] = "#"
  THEN SubSeq(u, 1, (CHOOSE i \in 1..Len(u) : u[i] = "#" /\ \A j \in 1..(i - 1) : u[j] /= "#") - 1)
  ELSE u

\* urllib.parse.urljoin(base, ref), for references without dot segments.
urljoin(base, ref) ==
  IF ref = <<>> THEN base
  ELSE IF HasScheme(ref) THEN ref
  ELSE IF StartsWith(ref, <<"/", "/">>) THEN Scheme(base) \o <<"://">> \o SubSeq(ref, 3, Len(ref))
  ELSE IF Head(ref) = "/" THEN Origin(base) \o ref
  ELSE IF Head(ref) = "#" THEN NoFragment(base) \o ref
  ELSE Origin(base) \o BaseDir(NoFragment(base)) \o ref

\* ------------------------------------------------------------------ titles

\* The longest title extract_title lets through.
TitleLimit == 100

\* The characters of the class [\\/:*?"<>|] of extract_title's re.sub.
IllegalChars == {"\\", "/", ":", "*", "?", "\"", "<", ">", "|"}

Untitled == <<"U", "n", "t", "i", "t", "l", "e", "d">>

LmsysSuffix == <<" ", "|", " ", "L", "M", "S", "Y", "S", " ", "O", "r", "g">>

\* soup.find(tag, attrs={attr: val}): the path of the first such element.
find_attr(n, tag, attr, val) ==
  LET ps == DescPaths(n)
      hits == {i \in 1..Len(ps) : At(n, ps[i]).tag = tag /\ At(n, ps[i]).attrs[attr] = val}
  IN IF hits = {} THEN NoPath ELSE ps[CHOOSE i \in hits : \A j \in hits : i <= j]

\* soup.find("meta", ...) and soup.find("meta", ...).get("content")
MetaContent(soup, attr, val) ==
  LET meta == find_attr(soup, "meta", attr, val)
  IN IF meta = NoPath THEN None ELSE At(soup, meta).attrs["content"]

\* soup.find(tag) and soup.find(tag).get_text(strip=True)
TagText(soup, tag) ==
  LET hit == find(soup, tag)
  IN IF hit = NoPath THEN None ELSE get_text_strip(At(soup, hit))

\* re.sub(r'[\\/:*?"<>|]', '_', title)
Sanitize(t) == [i \in 1..Len(t) |-> IF t[i] \in IllegalChars THEN "_" ELSE t[i]]

\* The fallback chain of DocsParser.extract_title, before cleaning.
DocsRawTitle(soup) ==
  Or(MetaContent(soup, "property", <<"og:title">>),
     Or(MetaContent(soup, "name", <<"twitter:title">>),
        Or(TagText(soup, "h1"),
           Or(IF TagText(soup, "title") = None THEN None
              ELSE Strip(BeforeFirst(TagText(soup, "title"), "|")),
              Untitled))))

\* DocsParser.extract_title
extract_title(soup) == Take(Sanitize(DocsRawTitle(soup)), TitleLimit)

\* The title steps of LMSYSParser.parse_article; the title is used as found.
BlogTitle(soup) ==
  Or(MetaContent(soup, "property", <<"og:title">>),
     Or(MetaContent(soup, "name", <<"twitter:title">>),
        Or(TagText(soup, "h1"),
           Or(IF TagText(soup, "title") = None THEN None
              ELSE Replace(TagText(soup, "title"), LmsysSuffix, <<>>),
              Untitled))))

\* ------------------------------------------------------- content location

\* content_selectors of DocsParser.extract_content, in order.
DocsSelectors ==
  << Sel("article", <<>>, <<>>, ""),
     Sel("main", <<>>, <<>>, ""),
     Sel("", <<>>, <<"main">>, ""),
     Sel("", <<"document">>, <<>>, ""),
     Sel("", <<"content">>, <<>>, ""),
     Sel("", <<"post", "-", "content">>, <<>>, ""),
     Sel("", <<"markdown", "-", "body">>, <<>>, ""),
     Sel("", <<"md">>, <<>>, ""),
     Sel("div", <<"document">>, <<>>, ""),
     Sel("div", <<"body">>, <<>>, ""),
     Sel("div", <<>>, <<"main">>, "") >>

\* content_selectors of LMSYSParser.parse_article, in order.
BlogSelectors ==
  << Sel("article", <<>>, <<>>, ""),
     Sel("div", <<"blog", "-", "content">>, <<>>, ""),
     Sel("div", <<"post", "-", "content">>, <<>>, ""),
     Sel("div", <<"content">>, <<>>, ""),
     Sel("main", <<>>, <<>>, ""),
     Sel("div", <<"prose">>, <<>>, ""),
     Sel("", <<>>, <<>>, "content"),
     Sel("", <<>>, <<>>, "article"),
     Sel("", <<>>, <<>>, "post") >>

\* Locate as it would be without the body fallback.
Locate_NoFallback(soup, sels) == FirstMatch(soup, sels)

\* The selector loop and the body fallback, shared by both parsers.
Locate(soup, sels) ==
  LET hit == FirstMatch(soup, sels)
  IN IF hit /= NoPath THEN hit ELSE find(soup, "body")

\* The names DocsParser.extract_content hands to find_all for removal: find_all
\* takes tag names, so the three dotted entries name tags that no element has.
NonContentTags == {"nav", "header", "footer", "aside", ".sidebar", ".navigation", ".menu"}

ScriptTags == {"script", "style", "link"}

\* The two removal loops of extract_content on a located region.
SanitizeRegion(region) == RemoveTags(RemoveTags(region, NonContentTags), ScriptTags)

\* DocsParser.extract_content: the tree after it, the region being at path p.
extract_content(soup, p) == IF p = NoPath THEN soup ELSE ReplaceAt(soup, p, SanitizeRegion(At(soup, p)))

\* DocsParser.extract_metadata: the description.
extract_metadata(soup) ==
  LET meta == find_attr(soup, "meta", "name", <<"description">>)
  IN IF meta = NoPath THEN <<>>
     ELSE LET c == At(soup, meta).attrs["content"]
          IN IF c = None THEN <<>> ELSE c

\* ----------------------------------------------------- reference resolution

\* The img branch of preprocess_content for one img.
ResolveImg(img, base_url) ==
  LET src == Or(img.attrs["src"], img.attrs["data-src"])
  IN IF ~Truthy(src) THEN img
     ELSE LET a1 == IF Head(src) = "/" THEN [img.attrs EXCEPT !["src"] = urljoin(base_url, src)]
                    ELSE IF Head(src) /= "http" THEN [img.attrs EXCEPT !["src"] = urljoin(base_url, src)]
                    ELSE img.attrs
              a2 == IF ~Truthy(a1["alt"]) THEN [a1 EXCEPT !["alt"] = <<>>] ELSE a1
          IN [img EXCEPT !.attrs = a2]

\* The link branch of preprocess_content for one a.
ResolveLink(a, base_url) ==
  LET href == a.attrs["href"]
  IN IF Truthy(href) /\ Head(href) = "/"
     THEN [a EXCEPT !.attrs = [a.attrs EXCEPT !["href"] = urljoin(base_url, href)]]
     ELSE a

RECURSIVE ResolveAll(_, _)
\* The img loop and the a loop of preprocess_content below n.
ResolveAll(n, base_url) ==
  [n EXCEPT !.kids =
     [i \in 1..Len(n.kids) |->
        LET k == n.kids[i]
            r == IF k.tag = "img" THEN ResolveImg(k, base_url)
                 ELSE IF k.tag = "a" THEN ResolveLink(k, base_url)
                 ELSE k
        IN ResolveAll(r, base_url)]]

\* DocsParser.preprocess_content: the code-block loop computes a language and
\* changes nothing.
preprocess_content(content, base_url) == ResolveAll(content, base_url)

\* --------------------------------------------------------------- code blocks

Whitelist ==
  {"python", "javascript", "java", "cpp", "c", "bash", "shell", "json", "yaml", "xml", "html", "css"}

IsLanguageClass(c) == StartsWith(c, <<"language-">>)

RECURSIVE BlogLang(_)
\* The class loop of LMSYSParser.save_and_transform: the first class that starts
\* with "language-", with that prefix removed; None when there is none.
BlogLang(cls) ==
  IF cls = <<>> THEN None
  ELSE IF IsLanguageClass(Head(cls)) THEN Replace(Head(cls), <<"language-">>, <<>>)
  ELSE BlogLang(Tail(cls))

RECURSIVE DocsLang(_)
\* The class loop of DocsParser.preprocess_content: the first class that starts
\* with "language-" or is a whitelisted bare name.
DocsLang(cls) ==
  IF cls = <<>> THEN None
  ELSE IF IsLanguageClass(Head(cls)) THEN Replace(Head(cls), <<"language-">>, <<>>)
  ELSE IF Len(Head(cls)) = 1 /\ Head(cls)[1] \in Whitelist THEN Head(cls)
  ELSE DocsLang(Tail(cls))

\* The three backquotes that open and close a fenced block (the module's
\* lexer has no backquote, so the token is spelled out).
Ticks == "<3 backquotes>"

\* markdown_code of save_and_transform.
Fence(lang, code_text) ==
  IF Truthy(lang) THEN <<"\n", Ticks>> \o lang \o <<"\n">> \o code_text \o <<"\n", Ticks, "\n">>
  ELSE <<"\n", Ticks, "\n">> \o code_text \o <<"\n", Ticks, "\n">>

\* ------------------------------------------------------ structural rewriting

\* utils.util.insert_new_line(soup, element, 1): one <br> after the element.
insert_new_line == <<El("br", <<>>, NoAttrs, <<>>)>>

Headings == {"h1", "h2", "h3", "h4", "h5", "h6"}

HeadingLevel(tag) == CASE tag = "h1" -> 1 [] tag = "h2" -> 2 [] tag = "h3" -> 3
                       [] tag = "h4" -> 4 [] tag = "h5" -> 5 [] OTHER -> 6

\* ul.find_all("li", recursive=False)
DirectItems(list) == Concat([i \in 1..Len(list.kids) |-> IF list.kids[i].tag = "li" THEN <<list.kids[i]>> ELSE <<>>])

\* The decimal numerals of the ordered-list counter.
Numeral(i) == CASE i = 1 -> "1" [] i = 2 -> "2" [] i = 3 -> "3" [] i = 4 -> "4" [] OTHER -> "5+"

\* markdown_list of the ul loop.
UlText(ul) ==
  LET items == DirectItems(ul)
  IN Concat([i \in 1..Len(items) |-> <<"- ">> \o get_text_strip(items[i]) \o <<"\n">>])

\* markdown_list of the ol loop: enumerate(items, 1).
OlText(ol) ==
  LET items == DirectItems(ol)
  IN Concat([i \in 1..Len(items) |-> <<Numeral(i), ". ">> \o get_text_strip(items[i]) \o <<"\n">>])

\* Whether the loop named by kind replaces element k.
Applies(kind, k) ==
  CASE kind = "style" -> k.tag = "style"
    [] kind = "script" -> k.tag = "script"
    [] kind = "code" -> k.tag = "pre" /\ find(k, "code") /= NoPath
    [] kind = "img" -> k.tag = "img" /\ k.attrs["src"] /= None
    [] kind = "link" -> k.tag = "a" /\ k.attrs["href"] /= None
    [] kind = "heading" -> k.tag \in Headings
    [] kind = "quote" -> k.tag = "blockquote"
    [] kind = "ul" -> k.tag = "ul"
    [] kind = "ol" -> k.tag = "ol"
    [] OTHER -> FALSE

\* The Markdown text the loop named by kind puts in the place of element k.
Render(kind, k) ==
  CASE kind = "code" ->
         LET code == At(k, find(k, "code")) IN Fence(BlogLang(code.cls), get_text(code))
    [] kind = "img" ->
         IF Truthy(k.attrs["alt"]) THEN <<"![">> \o k.attrs["alt"] \o <<"](">> \o k.attrs["src"] \o <<")">>
         ELSE <<"![](">> \o k.attrs["src"] \o <<")">>
    [] kind = "link" -> <<"[">> \o get_text_strip(k) \o <<"](">> \o k.attrs["href"] \o <<")">>
    [] kind = "heading" -> Rep("#", HeadingLevel(k.tag)) \o <<" ">> \o get_text_strip(k)
    [] kind = "quote" -> <<"> ">> \o get_text_strip(k)
    [] kind = "ul" -> UlText(k)
    [] OTHER -> OlText(k)

RECURSIVE Rewrite(_, _)
\* One loop of save_and_transform: for e in content.find_all(<kind>), in document
\* order, decompose e (style, script) or replace e by its Markdown text.  An element inside a replaced one is
\* then outside the tree; replacing it changes nothing the region holds.
Rewrite(n, kind) ==
  [n EXCEPT !.kids =
     Concat([i \in 1..Len(n.kids) |->
               IF ~Applies(kind, n.kids[i]) THEN <<Rewrite(n.kids[i], kind)>>
               ELSE IF kind \in {"style", "script"} THEN <<>>
               ELSE <<Txt(Render(kind, n.kids[i]))>> \o (IF kind = "link" THEN <<>> ELSE insert_new_line)])]

\* The order of the rewriting loops of save_and_transform.
BlogPasses == <<"style", "script", "code", "img", "link", "heading", "quote", "ul", "ol">>

\* ------------------------------------------------------- general conversion

\* markdownify's escaping of Markdown's own characters in a text.
Escape(s) == Concat([i \in 1..Len(s) |-> IF s[i] \in {"*", "_"} THEN <<"\\", s[i]>> ELSE <<s[i]>>])

RECURSIVE mdNode(_)
\* markdownify on one node: text escaped, the structures it knows rendered, the
\* children of every other element converted in place.
mdNode(n) ==
  LET inner == Concat([i \in 1..Len(n.kids) |-> mdNode(n.kids[i])])
      attr(a) == IF n.attrs[a] = None THEN <<>> ELSE n.attrs[a]
  IN CASE IsText(n) -> Escape(n.text)
       [] n.tag = "pre" -> <<"\n", Ticks, "\n">> \o get_text(n) \o <<"\n", Ticks, "\n">>
       [] n.tag = "img" -> <<"![">> \o attr("alt") \o <<"](">> \o attr("src") \o <<")">>
       [] n.tag = "a" -> IF n.attrs["href"] = None THEN inner
                         ELSE <<"[">> \o inner \o <<"](">> \o n.attrs["href"] \o <<")">>
       [] n.tag = "p" -> <<"\n", "\n">> \o inner \o <<"\n", "\n">>
       [] n.tag = "br" -> <<"  ", "\n">>
       [] n.tag = "hr" -> <<"\n", "\n", "---", "\n", "\n">>
       [] n.tag \in {"script", "style"} -> <<>>
       [] OTHER -> inner

\* md(content.decode_contents()): the conversion of the region's children.
md(region) == Concat([i \in 1..Len(region.kids) |-> mdNode(region.kids[i])])

\* ---------------------------------------------------------- author and date

\* The default author of extract_author_and_date.
LmsysTeam == <<"LMSYS", " ", "Team">>

\* Tokens that are a run of [A-Za-z].
Words == {"by", "Jane", "Doe", "Jan", "LMSYS", "Team", "hello", "and", "more"}

\* Tokens that are one \d.
Digits == {"0", "1", "2", "3", "4", "5", "6", "7", "8", "9"}

RECURSIVE SkipSpaces(_, _)
\* The index the greedy \s* leaves the match at, starting at i.
SkipSpaces(s, i) == IF i <= Len(s) /\ IsSpace(s[i]) THEN SkipSpaces(s, i + 1) ELSE i

RECURSIVE SkipIn(_, _, _)
\* The index a greedy run of tokens of class S leaves the match at.
SkipIn(s, i, S) == IF i <= Len(s) /\ s[i] \in S THEN SkipIn(s, i + 1, S) ELSE i

\* ([A-Za-z]+\s+\d+,\s*\d{4}) matched at index i: the index of its last token,
\* 0 when it does not match there.
DateEnd(s, i) ==
  LET w == SkipIn(s, i, Words)
      j == SkipSpaces(s, w)
      d == SkipIn(s, j, Digits)
      k == SkipSpaces(s, d + 1)
  IN IF /\ w > i
        /\ j > w
        /\ d > j
        /\ d <= Len(s) /\ s[d] = ","
        /\ k + 3 <= Len(s)
        /\ \A x \in k..(k + 3) : s[x] \in Digits
     THEN k + 3 ELSE 0

\* \s*,\s*(<date>) matched right after index e: the pair <<start, end>> of the
\* date group, <<0, 0>> when it does not match.
TailMatch(s, e) ==
  LET c == SkipSpaces(s, e + 1)
      g == SkipSpaces(s, c + 1)
  IN IF c <= Len(s) /\ s[c] = "," /\ DateEnd(s, g) /= 0 THEN <<g, DateEnd(s, g)>> ELSE <<0, 0>>

\* The result of a failed re.match.
NoMatch == [matched |-> FALSE, group1 |-> <<>>, group2 |-> <<>>]

\* re.match(r'^by:\s*(.+?)\s*,\s*([A-Za-z]+\s+\d+,\s*\d{4})', text): the groups,
\* or NoMatch.  \s* is greedy and gives back; (.+?) takes the fewest characters
\* and does not cross a line break.
by_match(text) ==
  LET a0 == SkipSpaces(text, 3)
      ok(a, e) == /\ \A x \in a..e : text[x] /= "\n"
                  /\ TailMatch(text, e) /= <<0, 0>>
      starts == {a \in 3..a0 : \E e \in a..Len(text) : ok(a, e)}
  IN IF ~StartsWith(text, <<"by", ":">>) \/ starts = {} THEN NoMatch
     ELSE LET a == CHOOSE x \in starts : \A y \in starts : y <= x
              e == CHOOSE x \in a..Len(text) : ok(a, x) /\ \A y \in a..(x - 1) : ~ok(a, y)
              t == TailMatch(text, e)
          IN [matched |-> TRUE, group1 |-> SubSeq(text, a, e), group2 |-> SubSeq(text, t[1], t[2])]

\* extract_author_and_date as it would be without first_paragraph.decompose():
\* author and date taken from the by-line, the paragraph left in the region.
extract_author_and_date_kept(region) ==
  LET fp == find(region, "p")
      m == IF fp = NoPath THEN NoMatch ELSE by_match(get_text_strip(At(region, fp)))
  IN IF ~m.matched THEN [author |-> LmsysTeam, date |-> None, region |-> region, removed |-> FALSE]
     ELSE [author |-> Strip(m.group1), date |-> Strip(m.group2),
           region |-> region, removed |-> TRUE]

\* LMSYSParser.extract_author_and_date on the region: the author, the date and
\* the region as the call leaves it.
extract_author_and_date(region) ==
  LET fp == find(region, "p")
      m == IF fp = NoPath THEN NoMatch ELSE by_match(get_text_strip(At(region, fp)))
  IN IF ~m.matched THEN [author |-> LmsysTeam, date |-> None, region |-> region, removed |-> FALSE]
     ELSE [author |-> Strip(m.group1), date |-> Strip(m.group2),
           region |-> RemoveAt(region, fp), removed |-> TRUE]

\* ----------------------------------------------------------------- assembly

RECURSIVE JoinLines(_)
\* "\n".join(lines)
JoinLines(lines) ==
  IF lines = <<>> THEN <<>>
  ELSE IF Len(lines) = 1 THEN lines[1]
  ELSE lines[1] \o <<"\n">> \o JoinLines(Tail(lines))

\* DocsAssemble as it would be with the separator written only along with the
\* description.
DocsAssemble_NoSeparator(t, u, description, markdown_content) ==
  <<"# ">> \o t \o <<"\n", "\n">>
  \o <<"**Source:** ">> \o u \o <<"\n", "\n">>
  \o (IF Truthy(description) THEN <<"> ">> \o description \o <<"\n", "\n", "---", "\n", "\n">> ELSE <<>>)
  \o markdown_content

\* full_markdown of DocsParser.save_document.
DocsAssemble(t, u, description, markdown_content) ==
  <<"# ">> \o t \o <<"\n", "\n">>
  \o <<"**Source:** ">> \o u \o <<"\n", "\n">>
  \o (IF Truthy(description) THEN <<"> ">> \o description \o <<"\n", "\n">> ELSE <<>>)
  \o <<"---", "\n", "\n">>
  \o markdown_content

\* markdown of LMSYSParser.save_and_transform.
BlogAssemble(t, a, d, target_link, c) ==
  JoinLines(<< <<"# ">> \o t, <<>>, <<"**Author:** ">> \o a >>
            \o (IF Truthy(d) THEN << <<"**Date:** ">> \o d >> ELSE <<>>)
            \o << <<"**Link:** ">> \o target_link, <<>>, <<"---">> >>)
  \o <<"\n", "\n">> \o c

\* ------------------------------------------------------------------- inputs

\* The most content fragments a generated page holds.
MaxFrags == 1

\* How far past TitleLimit the generated titles go.
MaxOver == 2

Attr(a, v) == [NoAttrs EXCEPT ![a] = v]

Attr2(a, v, b, w) == [NoAttrs EXCEPT ![a] = v, ![b] = w]

P(text) == El("p", <<>>, NoAttrs, <<Txt(text)>>)

Pre(cls, text) == El("pre", <<>>, NoAttrs, <<El("code", cls, NoAttrs, <<Txt(text)>>)>>)

Li(kids) == El("li", <<>>, NoAttrs, kids)

List(tag, items) == El(tag, <<>>, NoAttrs, items)

Link(href, text) == El("a", <<>>, Attr("href", href), <<Txt(text)>>)

PrintCode == <<"print", "(", "1", ")">>

Byline == <<"by", ":", " ", "Jane", " ", "Doe", ",", " ", "Jan", " ", "5", ",", " ", "2", "0", "2", "5">>

PageUrl == <<"http", "s", "://", "x.org", "/", "docs", "/", "page.html">>

CdnImage == <<"http", "s", "://", "cdn.x.org", "/", "a.png">>

\* The fragments a page's content is built from; each is a run of sibling nodes.
Fragments ==
  << \* code blocks
     <<Pre(<< <<"language-", "python">> >>, PrintCode)>>,
     <<Pre(<< <<"python">> >>, PrintCode)>>,
     <<Pre(<< <<"hljs">>, <<"language-", "js">> >>, PrintCode)>>,
     <<Pre(<< <<"python">>, <<"language-", "js">> >>, PrintCode)>>,
     <<Pre(<<>>, <<"a", "_", "b">>)>>,
     <<El("pre", <<>>, NoAttrs, <<Txt(PrintCode)>>)>>,
     \* images
     <<El("img", <<>>, Attr2("src", <<"/", "img", "/", "a.png">>, "alt", <<"logo">>), <<>>)>>,
     <<El("img", <<>>, Attr("src", <<"img", "/", "a.png">>), <<>>)>>,
     <<El("img", <<>>, Attr("src", CdnImage), <<>>)>>,
     <<El("img", <<>>, Attr("data-src", CdnImage), <<>>)>>,
     <<El("img", <<>>, Attr("data-src", <<"/", "img", "/", "a.png">>), <<>>)>>,
     <<El("img", <<>>, Attr("src", <<"http", "_diagram.png">>), <<>>)>>,
     <<El("img", <<>>, Attr("alt", <<"logo">>), <<>>)>>,
     \* links
     <<Link(<<"/", "docs", "/", "b.html">>, <<"next">>)>>,
     <<Link(<<"http", "s", "://", "y.org", "/">>, <<"site">>)>>,
     <<El("a", <<>>, Attr("name", <<"top">>), <<Txt(<<"anchor">>)>>)>>,
     <<El("a", <<>>, Attr("href", <<"#", "top">>),
          <<El("img", <<>>, Attr("src", CdnImage), <<>>)>>)>>,
     \* site furniture
     <<El("nav", <<>>, NoAttrs, <<Link(<<"/", "docs", "/", "b.html">>, <<"next">>)>>)>>,
     <<El("div", << <<"sidebar">> >>, NoAttrs, <<Txt(<<"menu">>)>>)>>,
     <<El("script", <<>>, NoAttrs, <<Txt(<<"js">>)>>), El("style", <<>>, NoAttrs, <<Txt(<<"css">>)>>)>>,
     <<El("aside", <<>>, NoAttrs, <<El("link", <<>>, Attr("href", <<"/", "a.css">>), <<>>)>>)>>,
     \* first paragraphs
     <<P(Byline), P(<<"hello">>)>>,
     <<P(<<"by", " ", "Jane", " ", "Doe">>)>>,
     <<P(<<"by", ":", " ", "Jane", " ", "Doe">>)>>,
     <<P(Byline \o <<" ", "and", " ", "more">>)>>,
     <<P(<<"hello">>), P(Byline)>>,
     <<P(<<"by", ":", " ", ",", " ", "Jan", " ", "5", ",", " ", "2", "0", "2", "5">>)>>,
     <<P(<<"by", ":", " ", "Jane", ",", " ", "Jan", " ", "5", ",", " ", "2", "0", "2">>)>>,
     \* lists
     <<List("ul", <<Li(<<Txt(<<"a">>)>>), Li(<<Txt(<<"b">>)>>)>>)>>,
     <<List("ol", <<Li(<<Txt(<<"a">>)>>), Li(<<Txt(<<"b">>)>>), Li(<<Txt(<<"c">>)>>)>>)>>,
     <<List("ul", <<Li(<<Txt(<<"a">>), List("ul", <<Li(<<Txt(<<"b">>)>>)>>)>>)>>)>>,
     <<List("ol", <<Li(<<Txt(<<"a">>), List("ul", <<Li(<<Txt(<<"b">>)>>)>>)>>)>>)>>,
     <<List("ul", <<Li(<<Txt(<<"a">>), List("ol", <<Li(<<Txt(<<"b">>)>>)>>)>>)>>)>>,
     <<List("ol", <<Li(<<Txt(<<"a">>)>>)>>), List("ol", <<Li(<<Txt(<<"b">>)>>)>>)>>,
     \* headings, quotes, rules
     <<El("h2", <<>>, NoAttrs, <<Txt(<<" ", "Intro", " ">>)>>)>>,
     <<El("blockquote", <<>>, NoAttrs, <<P(<<"quoted">>)>>)>>,
     <<El("hr", <<>>, NoAttrs, <<>>), Txt(<<"text">>)>> >>

\* The selections of at most MaxFrags fragments, in the order of the catalogue.
FragSeqs ==
  {fs \in UNION {[1..n -> 1..Len(Fragments)] : n \in 0..MaxFrags} :
     \A i \in 1..(Len(fs) - 1) : fs[i] < fs[i + 1]}

KidsOf(fs) == Concat([i \in 1..Len(fs) |-> Fragments[fs[i]]])

SiteNav ==
  El("nav", <<>>, NoAttrs,
     <<Link(<<"/", "docs", "/", "b.html">>, <<"B">>), Link(<<"/", "docs", "/", "c.html">>, <<"C">>)>>)

\* The shapes of page the content is put in: what surrounds the content decides
\* which selector, if any, finds it.
Wrappers == {"bare", "body", "article", "content", "role", "page-content", "bare-article"}

Html(head, bodykids) ==
  Doc(<<El("html", <<>>, NoAttrs, <<El("head", <<>>, NoAttrs, head), El("body", <<>>, NoAttrs, bodykids)>>)>>)

Wrap(w, head, kids) ==
  CASE w = "bare" -> Doc(head \o kids)
    [] w = "bare-article" -> Doc(head \o <<El("article", <<>>, NoAttrs, kids)>>)
    [] w = "body" -> Html(head, <<SiteNav>> \o kids)
    [] w = "article" ->
         Html(head, <<SiteNav, El("article", <<>>, NoAttrs, kids), El("footer", <<>>, NoAttrs, <<Txt(<<"foot">>)>>)>>)
    [] w = "content" -> Html(head, <<SiteNav, El("div", << <<"content">> >>, NoAttrs, kids)>>)
    [] w = "role" -> Html(head, <<SiteNav, El("div", <<>>, Attr("role", <<"main">>), kids)>>)
    [] OTHER -> Html(head, <<SiteNav, El("div", << <<"page", "-", "content">> >>, NoAttrs, kids)>>)

\* The head of a page whose title is not at issue.
PlainHead(described) ==
  <<El("title", <<>>, NoAttrs, <<Txt(<<"T">>)>>)>>
  \o (IF described THEN <<El("meta", <<>>, Attr2("name", <<"description">>, "content", <<"about">>), <<>>)>> ELSE <<>>)

\* The pages whose content varies.
BodyPages ==
  {Wrap(w, PlainHead(FALSE), KidsOf(fs)) : w \in Wrappers, fs \in FragSeqs}
  \cup {Wrap("article", PlainHead(TRUE), KidsOf(fs)) : fs \in FragSeqs}

\* The titles a page can carry, one character per token.
Titles ==
  { <<"a">>, <<"a", "/", "b">>, <<"a", " ", "|", " ", "b">>, <<"?", "*">>, <<"a">> \o LmsysSuffix }
  \cup {Rep("a", TitleLimit - 1 + k) \o tail : k \in 0..(MaxOver + 1), tail \in {<<>>, <<":">>}}

\* How a title source is present: not at all, present and empty, or set.
SlotStates == {"absent", "empty", "set"}

\* The elements of the four title sources, each in the given state; the first
\* source that is set carries t, a later one carries a decoy.
TitleHead(og, tw, ti, t) ==
  LET decoy == <<"d">>
      ogEl == IF og = "absent" THEN <<>>
              ELSE IF og = "empty" THEN <<El("meta", <<>>, Attr("property", <<"og:title">>), <<>>)>>
              ELSE <<El("meta", <<>>, Attr2("property", <<"og:title">>, "content", t), <<>>)>>
      twEl == IF tw = "absent" THEN <<>>
              ELSE IF tw = "empty" THEN <<El("meta", <<>>, Attr2("name", <<"twitter:title">>, "content", <<>>), <<>>)>>
              ELSE <<El("meta", <<>>, Attr2("name", <<"twitter:title">>, "content", IF og = "set" THEN decoy ELSE t), <<>>)>>
      tiEl == IF ti = "absent" THEN <<>>
              ELSE IF ti = "empty" THEN <<El("title", <<>>, NoAttrs, <<Txt(<<" ", "|", "x">>)>>)>>
              ELSE <<El("title", <<>>, NoAttrs, <<Txt(IF "set" \in {og, tw} THEN decoy ELSE t)>>)>>
  IN ogEl \o twEl \o tiEl

\* The pages whose title sources vary; the h1 is the first element of the body.
TitlePages ==
  { Html(TitleHead(og, tw, ti, t),
         (IF h = "absent" THEN <<>>
          ELSE IF h = "empty" THEN <<El("h1", <<>>, NoAttrs, <<Txt(<<" ">>)>>)>>
          ELSE <<El("h1", <<>>, NoAttrs, <<Txt(<<" ">> \o t \o <<" ">>)>>)>>)
         \o <<P(<<"hello">>)>>)
      : og \in SlotStates, tw \in SlotStates, h \in SlotStates, ti \in SlotStates, t \in Titles }

\* ---------------------------------------------------- link discovery, pages

\* The ancestor parts of nav_selectors of find_related_links, in order; each
\* selector is "<ancestor> a".
NavSelectors ==
  << Sel("", <<"sidebar">>, <<>>, ""),
     Sel("", <<"nav", "-", "list">>, <<>>, ""),
     Sel("", <<"toc">>, <<>>, ""),
     Sel("", <<"table", "-", "of", "-", "contents">>, <<>>, ""),
     Sel("nav", <<>>, <<>>, ""),
     Sel("", <<>>, <<"navigation">>, ""),
     Sel("", <<"menu">>, <<>>, ""),
     Sel("", <<"docs", "-", "navigation">>, <<>>, ""),
     Sel("", <<"sidebar", "-", "nav">>, <<>>, ""),
     Sel("", <<"bd", "-", "sidebar">>, <<>>, ""),
     Sel("", <<"wy", "-", "nav", "-", "side">>, <<>>, "") >>

\* soup.select("<ancestor> a"): the a elements below an element matching the
\* ancestor part, in document order.
SelectLinks(soup, s) ==
  LET ps == DescPaths(soup)
  IN Concat([i \in 1..Len(ps) |->
               IF /\ At(soup, ps[i]).tag = "a"
                  /\ \E k \in 1..(Len(ps[i]) - 1) : Matches(At(soup, SubSeq(ps[i], 1, k)), s)
               THEN <<At(soup, ps[i])>> ELSE <<>>])

\* The inner loop of find_related_links: the same-host targets of nav_links.
LinksOf(nav_links, base_url) ==
  Concat([i \in 1..Len(nav_links) |->
            LET href == nav_links[i].attrs["href"]
                full_url == urljoin(base_url, href)
            IN IF /\ Truthy(href)
                  /\ Head(href) /= "#"
                  /\ Head(href) /= "javascript:"
                  /\ Hostname(full_url) = Hostname(base_url)
               THEN <<full_url>> ELSE <<>>])

RECURSIVE FoundLinks(_, _, _)
\* The selector loop of find_related_links: the links of the first selector
\* that selects more than one a and yields at least one link.
FoundLinks(soup, base_url, sels) ==
  IF sels = <<>> THEN <<>>
  ELSE LET nav_links == SelectLinks(soup, Head(sels))
           links == IF Len(nav_links) > 1 THEN LinksOf(nav_links, base_url) ELSE <<>>
       IN IF links /= <<>> THEN links ELSE FoundLinks(soup, base_url, Tail(sels))

\* DocsParser.find_related_links, before list(set(links)) puts the links in
\* an order of its own: the set of links.
find_related_links(soup, base_url) ==
  LET links == FoundLinks(soup, base_url, NavSelectors)
  IN {links[i] : i \in 1..Len(links)}

\* The orders list(set(links)) can give the links.
Orders(S) ==
  {f \in [1..Cardinality(S) -> S] : \A i, j \in 1..Cardinality(S) : i /= j => f[i] /= f[j]}

\* l[:stop]
Slice(l, stop) ==
  LET e == IF stop >= 0 THEN (IF stop < Len(l) THEN stop ELSE Len(l))
           ELSE (IF Len(l) + stop > 0 THEN Len(l) + stop ELSE 0)
  IN SubSeq(l, 1, e)

\* What fetch_page returns for None.
NoSoup == Txt(None)

\* fetch_page as it would be without its except clause: the request's
\* exception leaves the call.
fetch_page_uncaught(ok, pg) == [soup |-> IF ok THEN pg ELSE NoSoup, raised |-> ~ok]

\* DocsParser.fetch_page for a request that succeeds with page pg or fails: the
\* soup returned (None on failure) and whether an exception leaves the call.
fetch_page(ok, pg) == [soup |-> IF ok THEN pg ELSE NoSoup, raised |-> FALSE]

\* extract_title, extract_content, extract_metadata and save_document up to the
\* write, on the parsed page sp of URL u: the region found, the tree as the
\* calls leave it, and the document to write.
ProcessPage(sp, u) ==
  LET p == Locate(sp, DocsSelectors)
      s1 == extract_content(sp, p)
      d == extract_metadata(s1)
      t == extract_title(sp)
  IN IF p = NoPath
     THEN [content |-> p, soup |-> s1, title |-> t, description |-> d, body |-> <<>>, document |-> <<>>]
     ELSE LET region == preprocess_content(At(s1, p), Origin(u))
              b == md(region)
          IN [content |-> p, soup |-> ReplaceAt(s1, p, region), title |-> t, description |-> d,
              body |-> b, document |-> DocsAssemble(t, u, d, b)]

\* The most links the navigation of a generated seed page holds.
MaxLinks == 3

\* The values of max_pages download_section is given: judge_type forwards
\* every value but 1; 50 is the default.
PageLimits == {0, 2, 3, 50}

SeedSelf == <<"/", "docs", "/", "page.html">>

\* The targets a navigation link of a seed page can have.
NavHrefs ==
  << <<"/", "docs", "/", "b.html">>,
     <<"c.html">>,
     <<"http", "s", "://", "y.org", "/">>,
     <<"#", "top">>,
     <<"javascript:", "void(0)">>,
     SeedSelf,
     SeedSelf \o <<"#", "intro">> >>

\* The navigation links with the targets chosen by S, in the order of NavHrefs.
NavLinks(S) ==
  Concat([i \in 1..Len(NavHrefs) |-> IF i \in S THEN <<Link(NavHrefs[i], <<"l">>)>> ELSE <<>>])

\* Where the navigation of a seed page is: in a nav beside the article, in a
\* nav inside the article, in a nav of a page whose region is the body, or in
\* a sidebar div beside the article.
Placements == {"beside", "inside", "body", "sidebar"}

SeedPage(where, S) ==
  LET nav == El("nav", <<>>, NoAttrs, NavLinks(S))
      text == P(<<"hello">>)
  IN CASE where = "beside" -> Html(PlainHead(FALSE), <<nav, El("article", <<>>, NoAttrs, <<text>>)>>)
       [] where = "inside" -> Html(PlainHead(FALSE), <<El("article", <<>>, NoAttrs, <<nav, text>>)>>)
       [] where = "body" -> Html(PlainHead(FALSE), <<nav, text>>)
       [] OTHER -> Html(PlainHead(TRUE),
                        <<El("div", << <<"sidebar">> >>, NoAttrs, NavLinks(S)),
                          El("article", <<>>, NoAttrs, <<text>>)>>)

SeedPages ==
  {SeedPage(w, S) : w \in Placements,
                    S \in {T \in SUBSET (1..Len(NavHrefs)) : Cardinality(T) <= MaxLinks}}

\* The page the server holds for a linked URL: c.html is a fragment without a
\* body element, every other page an article.
LinkPage(u) ==
  IF u[Len(u)] = "c.html" THEN Doc(<<El("title", <<>>, NoAttrs, <<Txt(<<"C">>)>>), P(<<"hello">>)>>)
  ELSE Html(PlainHead(FALSE), <<SiteNav, El("article", <<>>, NoAttrs, <<P(<<"hello">>)>>)>>)

\* -------------------------------------------------------------------- state

VARIABLES
  mode,        \* which entry point runs: "docs" (download_single), "blog" (parse_article)
  pc,          \* the position of the run
  url,         \* the URL the run was given
  page,        \* the document the server holds for url
  soup,        \* the parsed document (self.soup / soup)
  content,     \* the content region: a path into soup, NoPath for None
  title,       \* the extracted title
  description, \* metadata['description']
  author,      \* the author of extract_author_and_date
  date,        \* the date of extract_author_and_date, None when absent
  removed,     \* whether extract_author_and_date decomposed the first paragraph
  pass,        \* the rewriting loop of save_and_transform that runs next
  resolved,    \* the region as preprocess_content received it
  fences,      \* the pre/code blocks the code-block loop met: class list and text
  mdInput,     \* the region as handed to md
  body,        \* md's result
  document,    \* the assembled Markdown
  result,      \* how the run ended: "", "saved", "none", "returned", "raised"
  \* download_section
  max_pages,      \* the page limit
  related_links,  \* list(set(links)) of find_related_links
  pos,            \* the position of the for loop in related_links[:max_pages-1]
  index,          \* the file index of the next linked page
  visited_urls,   \* self.visited_urls
  trace,          \* what the loop did with each link it reached
  saved,          \* the files written: URL and file index
  error           \* the exception that ended the run: "", "fetch", "content", "write"

pageVars == <<soup, content, title, description, author, date, removed,
              pass, resolved, fences, mdInput, body, document>>

crawlVars == <<max_pages, related_links, pos, index, visited_urls, trace, saved>>

vars == <<mode, pc, url, page, result, error, pageVars, crawlVars>>

\* The region the content reference leads to.
Region == At(soup, content)

\* The pre elements wrapping a code element below n, in document order, as the
\* code-block loops of both parsers meet them.
CodeBlocks(n) ==
  LET pres == find_all(n, {"pre"})
  IN Concat([i \in 1..Len(pres) |->
               IF find(pres[i], "code") = NoPath THEN <<>>
               ELSE <<[cls |-> At(pres[i], find(pres[i], "code")).cls,
                       text |-> get_text(At(pres[i], find(pres[i], "code")))]>>])

\* A parser just constructed, given a URL whose page is one of pages.
Start(modes, pages) ==
  /\ mode \in modes
  /\ page \in pages
  /\ url = PageUrl
  /\ pc = "fetch"
  /\ error = ""
  /\ related_links = <<>>
  /\ pos = 1
  /\ index = 1
  /\ trace = <<>>
  /\ saved = <<>>
  /\ soup = Doc(<<>>)
  /\ content = NoPath
  /\ title = <<>>
  /\ description = <<>>
  /\ author = <<>>
  /\ date = None
  /\ removed = FALSE
  /\ pass = 1
  /\ resolved = Doc(<<>>)
  /\ fences = <<>>
  /\ mdInput = Doc(<<>>)
  /\ body = <<>>
  /\ document = <<>>
  /\ result = ""

Init == Start({"docs", "blog"}, BodyPages) /\ max_pages = 1 /\ visited_urls = {}

InitTitle == Start({"docs", "blog"}, TitlePages) /\ max_pages = 1 /\ visited_urls = {}

\* fetch_page / check_connect_error: the page parsed, or the request failing.
\* download_single raises on None; check_connect_error re-raises.
Fetch ==
  /\ pc = "fetch" /\ mode \in {"docs", "blog"}
  /\ \E ok \in BOOLEAN :
       IF ok THEN soup' = page /\ pc' = "extract_title" /\ result' = result /\ error' = error
       ELSE soup' = soup /\ pc' = "done" /\ result' = "raised" /\ error' = "fetch"
  /\ UNCHANGED <<mode, url, page, content, title, description, author, date, removed,
                 pass, resolved, fences, mdInput, body, document, crawlVars>>

\* DocsParser.extract_title / the title steps of parse_article.
ExtractTitle ==
  /\ pc = "extract_title"
  /\ title' = IF mode = "docs" THEN extract_title(soup) ELSE BlogTitle(soup)
  /\ pc' = "locate"
  /\ UNCHANGED <<mode, url, page, soup, content, description, author, date, removed,
                 pass, resolved, fences, mdInput, body, document, result, error, crawlVars>>

\* DocsParser.extract_content and extract_metadata.
DocsExtractContent ==
  /\ pc = "locate" /\ mode = "docs"
  /\ content' = Locate(soup, DocsSelectors)
  /\ soup' = extract_content(soup, content')
  /\ description' = extract_metadata(soup')
  /\ pc' = "save_document"
  /\ UNCHANGED <<mode, url, page, title, author, date, removed,
                 pass, resolved, fences, mdInput, body, document, result, error, crawlVars>>

\* save_document up to md: None for no content, else preprocess_content.
DocsPreprocess ==
  /\ pc = "save_document"
  /\ IF content = NoPath
     THEN /\ pc' = "done" /\ result' = "none"
          /\ UNCHANGED <<soup, resolved, fences>>
     ELSE /\ resolved' = Region
          /\ fences' = CodeBlocks(Region)
          /\ soup' = ReplaceAt(soup, content, preprocess_content(Region, Origin(url)))
          /\ pc' = "md" /\ result' = result
  /\ UNCHANGED <<mode, url, page, content, title, description, author, date, removed,
                 pass, mdInput, body, document, error, crawlVars>>

\* The selector loop of parse_article, its body fallback and its raise.
BlogLocate ==
  /\ pc = "locate" /\ mode = "blog"
  /\ content' = Locate(soup, BlogSelectors)
  /\ IF content' = NoPath THEN pc' = "done" /\ result' = "raised" /\ error' = "content"
     ELSE pc' = "author" /\ result' = result /\ error' = error
  /\ UNCHANGED <<mode, url, page, soup, title, description, author, date, removed,
                 pass, resolved, fences, mdInput, body, document, crawlVars>>

\* extract_author_and_date.
BlogAuthorDate ==
  /\ pc = "author"
  /\ LET r == extract_author_and_date(Region)
     IN /\ author' = r.author
        /\ date' = r.date
        /\ removed' = r.removed
        /\ soup' = ReplaceAt(soup, content, r.region)
  /\ pass' = 1
  /\ pc' = "rewrite"
  /\ UNCHANGED <<mode, url, page, content, title, description,
                 resolved, fences, mdInput, body, document, result, error, crawlVars>>

\* One rewriting loop of save_and_transform, in the order of the code.
BlogRewrite ==
  /\ pc = "rewrite"
  /\ soup' = ReplaceAt(soup, content, Rewrite(Region, BlogPasses[pass]))
  /\ fences' = IF BlogPasses[pass] = "code" THEN CodeBlocks(Region) ELSE fences
  /\ IF pass = Len(BlogPasses) THEN pc' = "md" /\ pass' = pass
     ELSE pc' = "rewrite" /\ pass' = pass + 1
  /\ UNCHANGED <<mode, url, page, content, title, description, author, date, removed,
                 resolved, mdInput, body, document, result, error, crawlVars>>

\* markdown_content = md(content.decode_contents())
Markdownify ==
  /\ pc = "md"
  /\ mdInput' = Region
  /\ body' = md(Region)
  /\ pc' = "assemble"
  /\ UNCHANGED <<mode, url, page, soup, content, title, description, author, date, removed,
                 pass, resolved, fences, document, result, error, crawlVars>>

\* The header and the body put together.
Assemble ==
  /\ pc = "assemble"
  /\ document' = IF mode = "docs" THEN DocsAssemble(title, url, description, body)
                 ELSE BlogAssemble(title, author, date, url, body)
  /\ pc' = "write"
  /\ UNCHANGED <<mode, url, page, soup, content, title, description, author, date, removed,
                 pass, resolved, fences, mdInput, body, result, error, crawlVars>>

\* open(...).write(...): the file written, or the file system refusing.
Write ==
  /\ pc = "write"
  /\ \E ok \in BOOLEAN :
       /\ result' = IF ok THEN "saved" ELSE "raised"
       /\ error' = IF ok THEN error ELSE "write"
  /\ pc' = "done"
  /\ UNCHANGED <<mode, url, page, soup, content, title, description, author, date, removed,
                 pass, resolved, fences, mdInput, body, document, crawlVars>>

Next ==
  \/ Fetch
  \/ ExtractTitle
  \/ DocsExtractContent
  \/ DocsPreprocess
  \/ BlogLocate
  \/ BlogAuthorDate
  \/ BlogRewrite
  \/ Markdownify
  \/ Assemble
  \/ Write

Spec == Init /\ [][Next]_vars

SpecTitle == InitTitle /\ [][Next]_vars

\* ------------------------------------------------------------ section crawl

\* A DocsParser just constructed and download_section called on a seed page.
InitCrawl ==
  /\ Start({"section"}, SeedPages)
  /\ max_pages \in PageLimits
  /\ visited_urls = {}

\* The links the for loop goes through.
LoopLinks == Slice(related_links, max_pages - 1)

\* soup = self.fetch_page(url); if not soup: raise
SeedFetch ==
  /\ pc = "fetch" /\ mode = "section"
  /\ \E ok \in BOOLEAN :
       LET r == fetch_page(ok, page)
       IN IF r.raised \/ r.soup = NoSoup
          THEN soup' = soup /\ pc' = "done" /\ result' = "raised" /\ error' = "fetch"
          ELSE soup' = r.soup /\ pc' = "seed_save" /\ result' = result /\ error' = error
  /\ UNCHANGED <<mode, url, page, content, title, description, author, date, removed,
                 pass, resolved, fences, mdInput, body, document, crawlVars>>

\* The seed page processed and saved with index 0; an error of the write
\* leaves download_section.
SeedSave ==
  /\ pc = "seed_save"
  /\ LET r == ProcessPage(soup, url)
     IN /\ soup' = r.soup /\ content' = r.content /\ title' = r.title
        /\ description' = r.description /\ body' = r.body /\ document' = r.document
        /\ IF r.content = NoPath
           THEN pc' = "discover" /\ UNCHANGED <<saved, result, error>>
           ELSE \E ok \in BOOLEAN :
                  IF ok THEN /\ saved' = Append(saved, [url |-> url, index |-> 0])
                             /\ pc' = "discover" /\ UNCHANGED <<result, error>>
                  ELSE /\ pc' = "done" /\ result' = "raised" /\ error' = "write"
                       /\ saved' = saved
  /\ UNCHANGED <<mode, url, page, author, date, removed, pass, resolved, fences, mdInput,
                 max_pages, related_links, pos, index, visited_urls, trace>>

\* related_links = self.find_related_links(soup, url); self.visited_urls.add(url)
Discover ==
  /\ pc = "discover"
  /\ related_links' \in Orders(find_related_links(soup, url))
  /\ visited_urls' = visited_urls \cup {url}
  /\ index' = 1
  /\ pos' = 1
  /\ pc' = "loop"
  /\ UNCHANGED <<mode, url, page, result, error, pageVars, max_pages, trace, saved>>

\* One iteration of the for loop: a visited link skipped; a link whose fetch
\* fails passed over; a fetched link marked visited, processed and saved under
\* the next index, an error of the write leaving download_section.
LinkStep ==
  /\ pc = "loop" /\ pos <= Len(LoopLinks)
  /\ LET link == LoopLinks[pos]
         step(outcome) == trace' = Append(trace, [link |-> link, outcome |-> outcome])
         goesOn == pc' = "loop" /\ pos' = pos + 1 /\ UNCHANGED <<result, error>>
     IN IF link \in visited_urls
        THEN step("skipped") /\ goesOn /\ UNCHANGED <<visited_urls, index, saved, document>>
        ELSE \E ok \in BOOLEAN :
               LET f == fetch_page(ok, LinkPage(link))
               IN IF f.raised
                  THEN /\ step("failed")
                       /\ pc' = "done" /\ result' = "raised" /\ error' = "fetch" /\ pos' = pos
                       /\ UNCHANGED <<visited_urls, index, saved, document>>
                  ELSE IF f.soup = NoSoup
                  THEN step("failed") /\ goesOn /\ UNCHANGED <<visited_urls, index, saved, document>>
                  ELSE LET r == ProcessPage(f.soup, link)
                       IN /\ visited_urls' = visited_urls \cup {link}
                          /\ document' = r.document
                          /\ IF r.content = NoPath
                             THEN step("none") /\ goesOn /\ index' = index + 1 /\ saved' = saved
                             ELSE \E written \in BOOLEAN :
                                    IF written
                                    THEN /\ step("saved") /\ goesOn /\ index' = index + 1
                                         /\ saved' = Append(saved, [url |-> link, index |-> index])
                                    ELSE /\ step("write_failed")
                                         /\ pc' = "done" /\ result' = "raised" /\ error' = "write"
                                         /\ pos' = pos
                                         /\ UNCHANGED <<index, saved>>
  /\ UNCHANGED <<mode, url, page, soup, content, title, description, author, date, removed,
                 pass, resolved, fences, mdInput, body, max_pages, related_links>>

\* The loop over: return dir_name.
Return ==
  /\ pc = "loop" /\ pos > Len(LoopLinks)
  /\ pc' = "done"
  /\ result' = "returned"
  /\ UNCHANGED <<mode, url, page, error, pageVars, crawlVars>>

NextCrawl ==
  \/ SeedFetch
  \/ SeedSave
  \/ Discover
  \/ LinkStep
  \/ Return

SpecCrawl == InitCrawl /\ [][NextCrawl]_vars

\* ------------------------------------------------------------------ claims

\* s contains sub as a run of consecutive tokens.
Contains(s, sub) == Occurrences(s, sub) /= {}

\* The content-location step has run (the request did not fail before it).
Located == pc \notin {"fetch", "extract_title", "locate"} /\ error /= "fetch"

\* md has run on the region.
MdRan == pc \in {"assemble", "write"} \/ (pc = "done" /\ (result = "saved" \/ error = "write"))

\* The document has been assembled.
Assembled == pc = "write" \/ (pc = "done" /\ (result = "saved" \/ error = "write"))

\* The page matches none of the content selectors of the parser that runs.
NoSelectorMatches ==
  LET d == Desc(page)
      sels == IF mode = "docs" THEN DocsSelectors ELSE BlogSelectors
  IN \A i \in 1..Len(d) : \A k \in 1..Len(sels) : ~Matches(d[i], sels[k])

Structures(n) ==
  LET d == Desc(n)
  IN {i \in 1..Len(d) :
        \/ d[i].tag = "pre" /\ find(d[i], "code") /= NoPath
        \/ d[i].tag = "img" /\ d[i].attrs["src"] /= None
        \/ d[i].tag = "a" /\ d[i].attrs["href"] /= None}

\* C2, as stated: in both parsers, when md runs over the region every code
\* block, image and link has been replaced by its Markdown text; md receives
\* no such element.
C2_PreRendered == MdRan => Structures(mdInput) = {}

\* The language tag C3 gives a class list: the first language-<lang> class,
\* otherwise the first whitelisted bare name, otherwise none.
ClaimLang(cls) ==
  LET tagged == {i \in 1..Len(cls) : IsLanguageClass(cls[i])}
      bare == {i \in 1..Len(cls) : Len(cls[i]) = 1 /\ cls[i][1] \in Whitelist}
  IN IF tagged /= {} THEN Tail(cls[CHOOSE i \in tagged : \A j \in tagged : i <= j])
     ELSE IF bare /= {} THEN cls[CHOOSE i \in bare : \A j \in bare : i <= j]
     ELSE <<>>

\* C3, as stated: in both parsers every pre wrapping a code comes out as a
\* fenced block tagged as ClaimLang says, the code text unchanged between the
\* fences (class language-python, text print(1): the three lines of the spec).
C3_FenceLanguage ==
  MdRan =>
    \A i \in 1..Len(fences) :
       Contains(body, <<Ticks>> \o ClaimLang(fences[i].cls) \o <<"\n">>
                               \o fences[i].text \o <<"\n", Ticks>>)

\* extract_author_and_date has returned.
AuthorRan == mode = "blog" /\ Located /\ pc /= "author" /\ error /= "content"

\* The region is as extract_author_and_date left it: no later loop has run.
JustAfterAuthor == pc = "rewrite" /\ pass = 1

JaneDoe == <<"Jane", " ", "Doe">>

Jan5 == <<"Jan", " ", "5", ",", " ", "2", "0", "2", "5">>

\* C4: author and date are taken together or not at all.  Either the first
\* paragraph of the region carries the whole by-line pattern: then the date is
\* present, author and date are both read from that paragraph, and the
\* paragraph is gone from the region (and its date from the converted body,
\* when no other paragraph carries it); or it does not: then the author is the
\* default "LMSYS Team", the date is absent and the region is untouched.  The
\* paragraph "by: Jane Doe, Jan 5, 2025" gives "Jane Doe" and "Jan 5, 2025";
\* "by Jane Doe" and "by: Jane Doe" give the default.
C4_AllOrNothing ==
  AuthorRan =>
    LET before == At(page, content)
        fp == find(before, "p")
        text == IF fp = NoPath THEN <<>> ELSE get_text_strip(At(before, fp))
        d == Desc(before)
        dated == {i \in 1..Len(d) : d[i].tag = "p" /\ Contains(get_text(d[i]), Jan5)}
    IN /\ removed <=> date /= None
       /\ removed =>
            /\ fp /= NoPath
            /\ StartsWith(text, <<"by", ":">>)
            /\ Contains(text, author) /\ Contains(text, date)
            /\ Len(text) >= 2 + Len(author) + 1 + Len(date)
            /\ JustAfterAuthor => Region = RemoveAt(before, fp)
            /\ (MdRan /\ Cardinality(dated) = 1) => ~Contains(body, Jan5)
       /\ ~removed =>
            /\ author = LmsysTeam
            /\ JustAfterAuthor => Region = before
       /\ StartsWith(text, Byline) => removed /\ author = JaneDoe /\ date = Jan5
       /\ text \in {<<"by", " ">> \o JaneDoe, <<"by", ":", " ">> \o JaneDoe} => ~removed

\* A blog article saved with the author and date of its by-line.
C4_Witness ==
  /\ mode = "blog" /\ pc = "done" /\ result = "saved"
  /\ removed /\ author = JaneDoe /\ date = Jan5

\* Title extraction has run.
TitleRan == pc \notin {"fetch", "extract_title"} /\ error /= "fetch"

\* The title the fallback chain found, before any cleaning.
SourceTitle == IF mode = "docs" THEN DocsRawTitle(page) ELSE BlogTitle(page)

\* C5, as stated: in both parsers the extracted title, which is the title of
\* the document header, is non-empty, at most 100 characters long (exactly 100
\* when the source title was longer) and free of the characters \ / : * ? " < > |.
C5_TitleClean ==
  /\ TitleRan =>
       /\ title /= <<>>
       /\ Len(title) <= TitleLimit
       /\ Len(SourceTitle) > TitleLimit => Len(title) = TitleLimit
       /\ \A i \in 1..Len(title) : title[i] \notin IllegalChars
  /\ Assembled => StartsWith(document, <<"# ">> \o title \o <<"\n">>)

\* The header lines the layout fixes, for the parser that runs.
HeaderLines ==
  IF mode = "docs"
  THEN << <<"# ">> \o title, <<>>, <<"**Source:** ">> \o url, <<>> >>
       \o (IF description /= <<>> THEN << <<"> ">> \o description, <<>> >> ELSE <<>>)
  ELSE << <<"# ">> \o title, <<>>, <<"**Author:** ">> \o author >>
       \o (IF date /= None /\ date /= <<>> THEN << <<"**Date:** ">> \o date >> ELSE <<>>)
       \o << <<"**Link:** ">> \o url, <<>> >>

\* C6: the lines of every assembled document are, in this order: "# <title>",
\* a blank line, the source line (docs) or the author, optional date and link
\* lines (blog), the optional quoted description, one "---" line, a blank
\* line, and then the lines of the body - whichever optional fields are there,
\* and also when the body is empty.
C6_Layout ==
  Assembled =>
    LET lines == SplitLines(document)
        h == Len(HeaderLines)
    IN /\ Len(lines) >= h + 3
       /\ SubSeq(lines, 1, h) = HeaderLines
       /\ lines[h + 1] = <<"---">>
       /\ lines[h + 2] = <<>>
       /\ SubSeq(lines, h + 3, Len(lines)) = SplitLines(body)
       /\ \A i \in 1..h : lines[i] /= <<"---">>

\* A document assembled around an empty body.
C6_Witness == Assembled /\ body = <<>> /\ pc = "done" /\ result = "saved"

NonContent == {"nav", "header", "footer", "aside", "script", "style", "link"}

ClassMarkers == {<<"sidebar">>, <<"menu">>, <<"navigation">>}

\* C7, as stated: after the sanitizing step of extract_content the region holds
\* no nav, header, footer or aside, no element of class sidebar, menu or
\* navigation, and no script, style or link; the rest of the document is as
\* it was.
C7_Sanitized ==
  (mode = "docs" /\ pc = "save_document" /\ content /= NoPath) =>
     /\ LET d == Desc(Region)
        IN \A i \in 1..Len(d) :
             /\ d[i].tag \notin NonContent
             /\ \A c \in ClassMarkers : ~HasClass(d[i], c)
     /\ ReplaceAt(soup, content, Txt(<<>>)) = ReplaceAt(page, content, Txt(<<>>))

\* C8, as stated: after reference resolution in the docs parser, every img
\* whose source (src, or data-src without src) is not absolute has an absolute
\* src, a root-relative source /p having become <origin>/p; and an img whose
\* source was absolute has exactly that URL as its src.
C8_ImagesResolved ==
  (mode = "docs" /\ pc = "md") =>
     LET before == find_all(resolved, {"img"})
         after == find_all(Region, {"img"})
     IN \A i \in 1..Len(before) :
          LET source == Or(before[i].attrs["src"], before[i].attrs["data-src"])
          IN Truthy(source) =>
               IF HasScheme(source) THEN after[i].attrs["src"] = source
               ELSE /\ HasScheme(after[i].attrs["src"])
                    /\ (Head(source) = "/" /\ ~StartsWith(source, <<"/", "/">>))
                         => after[i].attrs["src"] = Origin(url) \o source

\* The lines that open with a list marker, per text node of the region: the
\* pairs <<text node, line>>.
MarkerLines(n) ==
  LET d == Desc(n)
      marked(t) == LET lines == SplitLines(t)
                   IN {i \in 1..Len(lines) :
                         \/ StartsWith(lines[i], <<"- ">>)
                         \/ Len(lines[i]) >= 2 /\ lines[i][2] = ". "}
  IN UNION {{<<k, i>> : i \in marked(d[k].text)} : k \in {j \in 1..Len(d) : IsText(d[j])}}

\* C9, as stated: lists are converted inside-out, so that every list item of
\* the input comes out exactly once, as one "- " or "<n>. " line of its own.
C9_EveryItemOnce ==
  (mode = "blog" /\ MdRan) =>
     Cardinality(MarkerLines(mdInput)) = Len(find_all(At(page, content), {"li"}))

\* C10: in download_section a failing fetch of a linked page never ends the
\* crawl.  The loop reaches the links of related_links[:max_pages-1] in order;
\* after a link whose fetch failed it goes on to the next one, so that when
\* the call returns every one of these links has been reached, and fetched
\* unless it was visited before (the seed itself).  The call raises for a
\* failing fetch only when it is the seed's: then no link has been looked for
\* or fetched and nothing has been written.  (The one other way out of the
\* call is an error of a write.)
C10_FetchFailuresIsolated ==
  mode = "section" =>
    /\ Len(trace) <= Len(LoopLinks)
    /\ \A i \in 1..Len(trace) :
         /\ trace[i].link = LoopLinks[i]
         /\ trace[i].outcome = "failed" =>
              \/ i < Len(trace)
              \/ pc = "loop" /\ pos = i + 1 /\ result = ""
              \/ pc = "done" /\ result = "returned"
         /\ trace[i].outcome = "skipped" =>
              \/ trace[i].link = url
              \/ \E j \in 1..(i - 1) : trace[j].link = trace[i].link
    /\ (pc = "done" /\ result = "returned") => Len(trace) = Len(LoopLinks)
    /\ pc = "done" => result \in {"returned", "raised"}
    /\ result = "raised" => error \in {"fetch", "write"}
    /\ error = "fetch" =>
         /\ pc = "done" /\ result = "raised"
         /\ trace = <<>> /\ related_links = <<>> /\ saved = <<>> /\ visited_urls = {}
    /\ error = "write" =>
         \/ trace = <<>> /\ related_links = <<>>
         \/ trace /= <<>> /\ trace[Len(trace)].outcome = "write_failed"

\* A crawl that returned after a link whose fetch failed and a later link that
\* was saved.
C10_Witness ==
  /\ mode = "section" /\ pc = "done" /\ result = "returned"
  /\ \E i, j \in 1..Len(trace) :
       i < j /\ trace[i].outcome = "failed" /\ trace[j].outcome = "saved"

\* C11, as stated: in download_section an error of the write of one page's
\* file (the seed's or a linked page's) ends that document only: the call goes
\* on, reaches every remaining link and returns.
C11_WriteFailureLocal ==
  (mode = "section" /\ pc = "done" /\ error = "write") =>
     /\ result = "returned"
     /\ Len(trace) = Len(LoopLinks)

\* The entries of saved for linked pages.
LinkedSaved == {i \in 1..Len(saved) : saved[i].index > 0}

\* The links the loop fetched successfully.
Fetched == {i \in 1..Len(trace) : trace[i].outcome \in {"saved", "none", "write_failed"}}

\* C12, as stated: for every max_pages that judge_type forwards, the crawl
\* saves the seed page and at most max(max_pages - 1, 0) linked pages, fetches
\* and saves no URL twice, never fetches the seed URL again as a linked page,
\* and its loop ends after finitely many fetches (at most one per link).
C12_CrawlBounded ==
  mode = "section" =>
    /\ Cardinality(LinkedSaved) <= (IF max_pages - 1 > 0 THEN max_pages - 1 ELSE 0)
    /\ \A i, j \in 1..Len(saved) : saved[i].url = saved[j].url => i = j
    /\ \A i, j \in Fetched : trace[i].link = trace[j].link => i = j
    /\ \A i \in Fetched : trace[i].link /= url
    /\ Len(trace) <= Len(related_links)

\* C13, as stated: the links download_section discovers for the seed page are
\* those find_related_links gives on the seed page as it was fetched; the
\* removals of extract_content take no navigation link away from them.
C13_DiscoveryUnaffected ==
  (mode = "section" /\ pc = "loop") =>
     {related_links[i] : i \in 1..Len(related_links)} = find_related_links(page, url)

====
